---- MODULE Spec2Model ----
(***************************************************************************)
(* Source-of-truth consensus engine of babel-protocol                      *)
(* (src/algorithms/consensus.py, driven through BaseAlgorithm.execute of   *)
(* src/backend/algorithms/base.py).                                        *)
(*                                                                         *)
(* Python floats are modelled as exact rationals [n |-> num, d |-> den]    *)
(* in lowest terms.  Python's None is the record None.                     *)
(***************************************************************************)
EXTENDS Integers, Sequences, FiniteSets, TLC

VARIABLES
    sm_call,      \* last direct call of _determine_consensus_state (or NoCall)
    metrics,      \* BaseAlgorithm.metrics (the fields the engine writes)
    now,          \* time.time(), in days (multiples of half_life_days)
    last,         \* the last invocation of execute/process and its outcome
    sim_call      \* last direct call of _calculate_fact_similarity (or NoCall)

vars == <<sm_call, metrics, now, last, sim_call>>

----------------------------------------------------------------------------
(* Exact rational arithmetic standing for Python float arithmetic.         *)

RECURSIVE GCD(_, _)
GCD(a, b) ==
    IF b = 0 THEN a ELSE GCD(b, a % b)

Abs(i) ==
    IF i < 0 THEN -i ELSE i

Reduce(num, den, g) ==
    [n |-> num \div g, d |-> den \div g]

\* the float num / den (den # 0), in lowest terms with a positive denominator
R(num, den) ==
    Reduce(IF den < 0 THEN -num ELSE num, Abs(den), GCD(Abs(num), Abs(den)))

RInt(i) ==
    [n |-> i, d |-> 1]

RAdd(x, y) ==
    R(x.n * y.d + y.n * x.d, x.d * y.d)

RSub(x, y) ==
    R(x.n * y.d - y.n * x.d, x.d * y.d)

RMul(x, y) ==
    R(x.n * y.n, x.d * y.d)

RDivInt(x, k) ==
    R(x.n, x.d * k)

RLt(x, y) ==
    x.n * y.d < y.n * x.d

RLe(x, y) ==
    x.n * y.d <= y.n * x.d

RGe(x, y) ==
    RLe(y, x)

RMin(x, y) ==
    IF RLe(x, y) THEN x ELSE y

RAbs(x) ==
    [n |-> Abs(x.n), d |-> x.d]

RECURSIVE RSum(_)
RSum(seq) ==
    IF seq = <<>> THEN RInt(0) ELSE RAdd(Head(seq), RSum(Tail(seq)))

None ==
    [none |-> TRUE]

----------------------------------------------------------------------------
(* ConsensusState and the validation thresholds.                           *)

ConsensusState ==
    {"emerging", "provisional", "established", "contested", "revoked", "insufficient"}

validation_thresholds ==
    [high |-> R(8, 10), medium |-> R(6, 10), low |-> R(4, 10)]

\* Mutant of ThresholdState: exclusive bounds, as the enum's comments (> 80%) read.
ThresholdStateExclusive(current_score) ==
    IF RLt(validation_thresholds.high, current_score) THEN "established"
    ELSE IF RLt(validation_thresholds.medium, current_score) THEN "provisional"
    ELSE IF RLt(validation_thresholds.low, current_score) THEN "emerging"
    ELSE "insufficient"

\* _determine_consensus_state, previous_score is None (lines 87-94).
ThresholdState(current_score) ==
    IF RGe(current_score, validation_thresholds.high) THEN "established"
    ELSE IF RGe(current_score, validation_thresholds.medium) THEN "provisional"
    ELSE IF RGe(current_score, validation_thresholds.low) THEN "emerging"
    ELSE "insufficient"

\* Mutant: the two downgrade branches name each other's state.
determine_state_swapped(current_score, previous_score) ==
    IF previous_score = None THEN ThresholdState(current_score)
    ELSE IF RGe(previous_score, validation_thresholds.high)
         THEN IF RLt(current_score, validation_thresholds.low) THEN "contested"
              ELSE IF RLt(current_score, validation_thresholds.medium) THEN "revoked"
              ELSE "established"
         ELSE ThresholdState(current_score)

\* Mutant: no hysteresis at the top, a known previous score only adds the downgrades.
determine_state_no_hold(current_score, previous_score) ==
    IF previous_score = None THEN ThresholdState(current_score)
    ELSE IF RGe(previous_score, validation_thresholds.high)
              /\ RLt(current_score, validation_thresholds.medium)
         THEN "contested"
         ELSE ThresholdState(current_score)

\* Mutant: the transition branch is entered from 'medium' upwards.
determine_state_from_medium(current_score, previous_score) ==
    IF previous_score = None THEN ThresholdState(current_score)
    ELSE IF RGe(previous_score, validation_thresholds.medium)
         THEN IF RLt(current_score, validation_thresholds.medium) THEN "contested"
              ELSE IF RLt(current_score, validation_thresholds.low) THEN "revoked"
              ELSE "established"
         ELSE ThresholdState(current_score)

\* Mutant: once the previous score was high the state is latched.
determine_state_latched(current_score, previous_score) ==
    IF previous_score = None THEN ThresholdState(current_score)
    ELSE IF RGe(previous_score, validation_thresholds.high) THEN "established"
         ELSE ThresholdState(current_score)

\* The code tests "< medium" before "< low", so the revoked branch is shadowed.
determine_consensus_state(current_score, previous_score) ==
    IF previous_score = None THEN ThresholdState(current_score)
    ELSE IF RGe(previous_score, validation_thresholds.high)
         THEN IF RLt(current_score, validation_thresholds.medium) THEN "contested"
              ELSE IF RLt(current_score, validation_thresholds.low) THEN "revoked"
              ELSE "established"
         ELSE ThresholdState(current_score)

----------------------------------------------------------------------------
(* Python values.  A dict is a record holding every key the code reads,    *)
(* Absent standing for a key that is not in the dict; a str is Str(s), a   *)
(* list is List(seq), a float is a rational.                               *)

Absent ==
    [absent |-> TRUE]

Str(s) ==
    [str |-> s]

List(seq) ==
    [list |-> seq]

IsList(v) ==
    "list" \in DOMAIN v

\* dict.get(key, default)
Get(v, default) ==
    IF v = Absent THEN default ELSE v

\* Outcome of a call: a returned value or a raised exception.
Ok(v) ==
    [ok |-> TRUE, v |-> v]

Raise(type, message) ==
    [ok |-> FALSE, error_type |-> type, error |-> message]

----------------------------------------------------------------------------
(* Texts.  A text is the sequence of its tokens: words (\w+) and the       *)
(* sentence terminators . ! ?                                              *)

Terminators ==
    {".", "!", "?"}

\* str.lower() on the vocabulary of the model
Lower(w) ==
    CASE w = "Sky" -> "sky"
      [] w = "Blue" -> "blue"
      [] w = "IS" -> "is"
      [] OTHER -> w

\* nltk stopwords.words('english'), the part that meets the vocabulary
stop_words ==
    {"is", "are", "was", "were", "has", "have", "can", "will", "should",
     "the", "a", "it", "not"}

fact_indicators ==
    {"is", "are", "was", "were", "has", "have", "can", "will", "must", "should"}

source_weights ==
    [t \in {"official_docs", "research_paper", "technical_blog", "community_wiki",
            "forum_post", "social_media"} |->
        CASE t = "official_docs" -> R(10, 10)
          [] t = "research_paper" -> R(9, 10)
          [] t = "technical_blog" -> R(8, 10)
          [] t = "community_wiki" -> R(7, 10)
          [] t = "forum_post" -> R(6, 10)
          [] t = "social_media" -> R(4, 10)]

\* self.source_weights.get(source['source'], 0.5)
SourceWeight(type) ==
    IF type.str \in DOMAIN source_weights THEN source_weights[type.str] ELSE R(5, 10)

similarity_threshold ==
    R(7, 10)

half_life_days == 7

TopTerms == 10

MinTermLen == 2

SeqToSet(seq) ==
    {seq[i] : i \in DOMAIN seq}

RECURSIVE SelectSeq2(_, _)
\* [x for x in seq if x in keep]
SelectSeq2(seq, keep) ==
    IF seq = <<>> THEN <<>>
    ELSE IF Head(seq) \in keep THEN <<Head(seq)>> \o SelectSeq2(Tail(seq), keep)
    ELSE SelectSeq2(Tail(seq), keep)

LowerAll(ws) ==
    [i \in DOMAIN ws |-> Lower(ws[i])]

\* re.findall(r'\b\w+\b', text.lower())
WordsOf(tokens) ==
    LowerAll(SelectSeq2(tokens, SeqToSet(tokens) \ Terminators))

RECURSIVE Distinct(_)
\* keys of term_freq in insertion order
Distinct(seq) ==
    IF seq = <<>> THEN <<>>
    ELSE <<Head(seq)>> \o Distinct(SelectSeq2(Tail(seq), SeqToSet(seq) \ {Head(seq)}))

Count(w, seq) ==
    Cardinality({i \in DOMAIN seq : seq[i] = w})

\* index of the first key with the highest count
TopIndex(keys, words) ==
    CHOOSE i \in DOMAIN keys :
        /\ \A j \in DOMAIN keys : Count(keys[j], words) <= Count(keys[i], words)
        /\ \A j \in 1..(i - 1) : Count(keys[j], words) < Count(keys[i], words)

RemoveAt(seq, k) ==
    [j \in 1..(Len(seq) - 1) |-> IF j < k THEN seq[j] ELSE seq[j + 1]]

RECURSIVE SortedByFreq(_, _)
RECURSIVE TakeTop(_, _, _)
TakeTop(keys, words, top) ==
    <<keys[top]>> \o SortedByFreq(RemoveAt(keys, top), words)

\* sorted(term_freq.items(), key=count, reverse=True): stable, ties keep insertion order
SortedByFreq(keys, words) ==
    IF keys = <<>> THEN <<>> ELSE TakeTop(keys, words, TopIndex(keys, words))

\* sorted_terms[:10]
FirstTerms(sorted_terms) ==
    SubSeq(sorted_terms, 1, IF Len(sorted_terms) < TopTerms THEN Len(sorted_terms) ELSE TopTerms)

\* words that are no stop words and longer than two characters, then the top terms
KeyTermsOf(words) ==
    FirstTerms(SortedByFreq(Distinct(words), words))

KeyWords(all) ==
    SelectSeq2(all, {w \in SeqToSet(all) : w \notin stop_words /\ Len(w) > MinTermLen})

extract_key_terms(text) ==
    KeyTermsOf(KeyWords(WordsOf(text)))

RECURSIVE Sentences(_, _)
\* re.split(r'[.!?]+', text), stripped, empty pieces dropped
Sentences(tokens, current) ==
    IF tokens = <<>> THEN (IF current = <<>> THEN <<>> ELSE <<current>>)
    ELSE IF Head(tokens) \in Terminators
         THEN (IF current = <<>> THEN <<>> ELSE <<current>>) \o Sentences(Tail(tokens), <<>>)
         ELSE Sentences(Tail(tokens), Append(current, Head(tokens)))

RECURSIVE FactsAmong(_)
FactsAmong(sentences) ==
    IF sentences = <<>> THEN <<>>
    ELSE (IF SeqToSet(WordsOf(Head(sentences))) \cap fact_indicators # {}
          THEN <<Head(sentences)>> ELSE <<>>) \o FactsAmong(Tail(sentences))

extract_facts(text) ==
    FactsAmong(Sentences(text, <<>>))

\* Mutant: the overlap is measured against the first fact's words only.
JaccardOfFirst(words1, words2) ==
    IF words1 = {} \/ words2 = {} THEN RInt(0)
    ELSE R(Cardinality(words1 \cap words2), Cardinality(words1))

\* Jaccard similarity of two word sets, 0.0 when either is empty
Jaccard(words1, words2) ==
    IF words1 = {} \/ words2 = {} THEN RInt(0)
    ELSE R(Cardinality(words1 \cap words2), Cardinality(words1 \cup words2))

\* Mutant: the stop words are left in the word sets.
fact_similarity_with_stop_words(fact1, fact2) ==
    Jaccard(SeqToSet(WordsOf(fact1)), SeqToSet(WordsOf(fact2)))

calculate_fact_similarity(fact1, fact2) ==
    Jaccard(SeqToSet(WordsOf(fact1)) \ stop_words, SeqToSet(WordsOf(fact2)) \ stop_words)

RECURSIVE RSumSet(_)
\* sum(agreement_scores), the scores given as a set of [key, score] entries
RSumSet(entries) ==
    IF entries = {} THEN RInt(0)
    ELSE RAdd((CHOOSE e \in entries : TRUE).score,
              RSumSet(entries \ {CHOOSE e \in entries : TRUE}))

\* sum(agreement_scores) / len(agreement_scores), or 0.0 for no scores
MeanOf(entries) ==
    IF entries = {} THEN RInt(0) ELSE RDivInt(RSumSet(entries), Cardinality(entries))

\* Mutant: a term is counted once per occurrence, not once per source.
TermFractionsPerOccurrence(term_lists) ==
    {[key |-> t,
      score |-> R(Cardinality(UNION {{<<i, k>> : k \in {n \in DOMAIN term_lists[i] :
                                                          term_lists[i][n] = t}}
                                     : i \in DOMAIN term_lists}),
                  Len(term_lists))]
     : t \in UNION {SeqToSet(term_lists[i]) : i \in DOMAIN term_lists}}

\* term_freq[term] / total_sources for every term of any source
TermFractions(term_lists) ==
    {[key |-> t,
      score |-> R(Cardinality({i \in DOMAIN term_lists : t \in SeqToSet(term_lists[i])}),
                  Len(term_lists))]
     : t \in UNION {SeqToSet(term_lists[i]) : i \in DOMAIN term_lists}}

\* Mutant: the similarity threshold is not applied to the term fractions.
AnyFraction(entries) ==
    entries

AtThreshold(entries) ==
    {e \in entries : RGe(e.score, similarity_threshold)}

calculate_term_agreement(term_lists) ==
    IF term_lists = <<>> THEN RInt(0)
    ELSE MeanOf(AtThreshold(TermFractions(term_lists)))

\* Mutant: the fact's own source is compared as well.
AgreementsWithSelf(fact_lists, i, k) ==
    Cardinality({j \in DOMAIN fact_lists :
        \E m \in DOMAIN fact_lists[j] :
            RGe(calculate_fact_similarity(fact_lists[i][k], fact_lists[j][m]),
                similarity_threshold)})

\* agreements for fact number k of source i
Agreements(fact_lists, i, k) ==
    Cardinality({j \in DOMAIN fact_lists :
        /\ j # i
        /\ \E m \in DOMAIN fact_lists[j] :
               RGe(calculate_fact_similarity(fact_lists[i][k], fact_lists[j][m]),
                   similarity_threshold)})

\* one entry per fact of every source, with its number of agreeing other sources
FactAgreements(fact_lists) ==
    UNION {{[key |-> <<i, k>>, agreements |-> Agreements(fact_lists, i, k)]
            : k \in DOMAIN fact_lists[i]} : i \in DOMAIN fact_lists}

\* Mutant: the agreements are divided by the number of all sources.
FactFractionsOfAll(counted, total_sources) ==
    {[key |-> c.key, score |-> R(c.agreements, total_sources)]
     : c \in {x \in counted : x.agreements > 0}}

\* if agreements > 0: agreement_scores.append(agreements / (total_sources - 1))
FactFractions(counted, total_sources) ==
    {[key |-> c.key, score |-> R(c.agreements, total_sources - 1)]
     : c \in {x \in counted : x.agreements > 0}}

calculate_fact_agreement(fact_lists) ==
    IF fact_lists = <<>> THEN RInt(0)
    ELSE MeanOf(FactFractions(FactAgreements(fact_lists), Len(fact_lists)))

----------------------------------------------------------------------------
(* The aggregator: consensus, reliability, temporal weight, contributions. *)

Least(S) ==
    CHOOSE i \in S : \A j \in S : i <= j

\* content.get('text', '')
TextOf(source) ==
    Get(source.content.text, [tokens |-> <<>>]).tokens

\* Mutant: the two agreement factors are exchanged.
WeightedScoreSwapped(term_agreement, fact_agreement, weights) ==
    RDivInt(RMul(RAdd(RMul(R(6, 10), term_agreement), RMul(R(4, 10), fact_agreement)),
                 RSum(weights)),
            Len(weights))

\* (0.4 * term_agreement + 0.6 * fact_agreement) * sum(weights) / len(weights)
WeightedScore(term_agreement, fact_agreement, weights) ==
    RDivInt(RMul(RAdd(RMul(R(4, 10), term_agreement), RMul(R(6, 10), fact_agreement)),
                 RSum(weights)),
            Len(weights))

\* the loop of _calculate_consensus: the first source, in list order, that lacks
\* 'content' (read first) or 'source' raises KeyError
ConsensusLoop(sources, bad) ==
    IF bad # {}
    THEN Raise("KeyError",
               IF sources[Least(bad)].content = Absent THEN "'content'" ELSE "'source'")
    ELSE Ok(RMin(RInt(1),
                 WeightedScore(
                     calculate_term_agreement(
                         [i \in DOMAIN sources |-> extract_key_terms(TextOf(sources[i]))]),
                     calculate_fact_agreement(
                         [i \in DOMAIN sources |-> extract_facts(TextOf(sources[i]))]),
                     [i \in DOMAIN sources |-> SourceWeight(sources[i].source)])))

MissingKeys(sources) ==
    {i \in DOMAIN sources : sources[i].content = Absent \/ sources[i].source = Absent}

calculate_consensus(sources) ==
    IF sources = <<>> THEN Ok(RInt(0)) ELSE ConsensusLoop(sources, MissingKeys(sources))

EmptyAnalysis ==
    [quality_score |-> Absent, evidence |-> Absent]

EmptyEvidence ==
    [strength_score |-> Absent]

\* Mutant: the quality score gets the weight of the source type.
ReliabilityQualityFirst(base_reliability, quality_score, evidence_score) ==
    RAdd(RAdd(RMul(R(3, 10), base_reliability), RMul(R(4, 10), quality_score)),
         RMul(R(3, 10), evidence_score))

\* 0.4 * base_reliability + 0.3 * quality_score + 0.3 * evidence_score
Reliability(base_reliability, quality_score, evidence_score) ==
    RAdd(RAdd(RMul(R(4, 10), base_reliability), RMul(R(3, 10), quality_score)),
         RMul(R(3, 10), evidence_score))

QualityOf(analysis) ==
    Get(analysis.quality_score, R(5, 10))

EvidenceOf(analysis) ==
    Get(Get(analysis.evidence, EmptyEvidence).strength_score, R(5, 10))

SourceReliability(source) ==
    Reliability(SourceWeight(source.source),
                QualityOf(Get(source.content.analysis, EmptyAnalysis)),
                EvidenceOf(Get(source.content.analysis, EmptyAnalysis)))

\* sum(reliability_scores) / len(reliability_scores)
Mean(scores) ==
    RDivInt(RSum(scores), Len(scores))

ReliabilityLoop(sources, bad) ==
    IF bad # {}
    THEN Raise("KeyError",
               IF sources[Least(bad)].source = Absent THEN "'source'" ELSE "'content'")
    ELSE Ok(Mean([i \in DOMAIN sources |-> SourceReliability(sources[i])]))

calculate_reliability(sources) ==
    IF sources = <<>> THEN Ok(RInt(0)) ELSE ReliabilityLoop(sources, MissingKeys(sources))

RECURSIVE Pow2(_)
Pow2(k) ==
    IF k = 0 THEN 1 ELSE 2 * Pow2(k - 1)

\* 2 ** (-age / half_life) for an age of that many half-lives
Decay(halves) ==
    IF halves >= 0 THEN R(1, Pow2(halves)) ELSE R(Pow2(-halves), 1)

\* times are in days and are multiples of the half-life
calculate_temporal_weight(timestamp, t) ==
    Decay((t - timestamp.n) \div half_life_days)

\* Mutant: the agreement is taken without abs().
user_contribution_signed(user_vote_timestamp, final_consensus, user_vote_value, t) ==
    RMul(calculate_temporal_weight(user_vote_timestamp, t),
         RSub(RInt(1), RSub(final_consensus, user_vote_value)))

\* Mutant: the age of the vote is ignored.
user_contribution_undecayed(user_vote_timestamp, final_consensus, user_vote_value, t) ==
    RSub(RInt(1), RAbs(RSub(final_consensus, user_vote_value)))

calculate_user_contribution(user_vote_timestamp, final_consensus, user_vote_value, t) ==
    RMul(calculate_temporal_weight(user_vote_timestamp, t),
         RSub(RInt(1), RAbs(RSub(final_consensus, user_vote_value))))

RLeast(stamps) ==
    CHOOSE x \in stamps : \A y \in stamps : RLe(x, y)

\* Mutant: the newest timestamp is taken.
MaxTimestamp(sources, t) ==
    CHOOSE x \in {Get(sources[i].timestamp, RInt(t)) : i \in DOMAIN sources} :
        \A i \in DOMAIN sources : RLe(Get(sources[i].timestamp, RInt(t)), x)

\* min(s.get('timestamp', current_time) for s in sources), sources not empty
MinTimestamp(sources, t) ==
    RLeast({Get(sources[i].timestamp, RInt(t)) : i \in DOMAIN sources})

Voted(source) ==
    source.user_id # Absent /\ source.vote_value # Absent

\* Mutant: the first vote of each user_id is kept.
FirstVotes(sources, voters) ==
    {i \in voters : \A j \in voters : sources[j].user_id = sources[i].user_id => j >= i}

\* the sources whose dict entry survives: the last vote of each user_id
FinalVotes(sources, voters) ==
    {i \in voters : \A j \in voters : sources[j].user_id = sources[i].user_id => j <= i}

\* the dict user_contributions, as its set of items
UserContributions(sources, consensus_score, t) ==
    {[user_id |-> sources[i].user_id.str,
      contribution |-> calculate_user_contribution(
          Get(sources[i].timestamp, RInt(t)), consensus_score, sources[i].vote_value, t)]
     : i \in FinalVotes(sources, {j \in DOMAIN sources : Voted(sources[j])})}

----------------------------------------------------------------------------
(* process and execute.                                                    *)

\* str(v)
ToStr(v) ==
    IF v = None THEN "None" ELSE v.str

\* Mutant: no content_id check, as in backend/algorithms/source_of_truth_consensus.py.
ContentIdUnchecked(content_id) ==
    FALSE

\* if not content_id: raise ValueError
ContentIdRejected(content_id) ==
    content_id = ""

validate_input(data) ==
    data.content_id # Absent /\ data.sources # Absent

\* the AlgorithmResponse of the except branch: the exception becomes a result.
\* "failure" is the exception caught, "ran" the computations that were started.
ErrorResponse(data, e, t, m, ran) ==
    [response |-> [algorithm_id |-> "source_consensus_v1",
                   timestamp |-> t,
                   results |-> <<[error |-> e.error,
                                  content_id |-> Get(data.content_id, Str("unknown"))]>>,
                   metrics |-> m],
     raised |-> FALSE,
     failure |-> e,
     ran |-> ran]

ResultResponse(result, t, m, ran) ==
    [response |-> [algorithm_id |-> "source_consensus_v1",
                   timestamp |-> t,
                   results |-> <<result>>,
                   metrics |-> m],
     raised |-> FALSE,
     failure |-> None,
     ran |-> ran]

\* Mutant: the consensus score is decayed by the temporal weight before it is used.
ProcessScoredDecayed(data, content_id, sources, consensus_score, reliability_score, t, m) ==
    IF sources = <<>>
    THEN ErrorResponse(data, Raise("ValueError", "min() arg is an empty sequence"),
                       t, m, {"consensus", "reliability", "temporal"})
    ELSE ResultResponse(
             [content_id |-> content_id,
              sources |-> sources,
              consensus_score |->
                  RMul(consensus_score, calculate_temporal_weight(MinTimestamp(sources, t), t)),
              reliability_score |-> reliability_score,
              validation_count |-> Len(sources),
              consensus_state |-> determine_consensus_state(
                  consensus_score, Get(data.previous_consensus_score, None)),
              temporal_weight |-> calculate_temporal_weight(MinTimestamp(sources, t), t),
              user_contributions |-> UserContributions(sources, consensus_score, t),
              timestamp |-> t],
             t, m, {"consensus", "reliability", "temporal", "contributions", "state"})

\* lines 133-174: temporal weight, contributions, state, ConsensusResult
ProcessScored(data, content_id, sources, consensus_score, reliability_score, t, m) ==
    IF sources = <<>>
    THEN ErrorResponse(data, Raise("ValueError", "min() arg is an empty sequence"),
                       t, m, {"consensus", "reliability", "temporal"})
    ELSE ResultResponse(
             [content_id |-> content_id,
              sources |-> sources,
              consensus_score |-> consensus_score,
              reliability_score |-> reliability_score,
              validation_count |-> Len(sources),
              consensus_state |-> determine_consensus_state(
                  consensus_score, Get(data.previous_consensus_score, None)),
              temporal_weight |-> calculate_temporal_weight(MinTimestamp(sources, t), t),
              user_contributions |-> UserContributions(sources, consensus_score, t),
              timestamp |-> t],
             t, m, {"consensus", "reliability", "temporal", "contributions", "state"})

\* lines 129-130: a raise in either score computation ends the try block
ProcessScores(data, content_id, sources, consensus, reliability, t, m) ==
    IF ~consensus.ok THEN ErrorResponse(data, consensus, t, m, {"consensus"})
    ELSE IF ~reliability.ok
    THEN ErrorResponse(data, reliability, t, m, {"consensus", "reliability"})
    ELSE ProcessScored(data, content_id, sources, consensus.v, reliability.v, t, m)

\* lines 119-126: the two input checks
ProcessChecked(data, content_id, sources, t, m) ==
    IF ContentIdRejected(content_id)
    THEN ErrorResponse(data, Raise("ValueError", "Missing or invalid content_id"), t, m, {})
    ELSE IF ~IsList(sources)
    THEN ErrorResponse(data, Raise("ValueError", "Sources must be a list"), t, m, {})
    ELSE ProcessScores(data, content_id, sources.list,
                       calculate_consensus(sources.list),
                       calculate_reliability(sources.list), t, m)

\* process(data) at time t with self.metrics = m
process(data, t, m) ==
    ProcessChecked(data, ToStr(Get(data.content_id, Str(""))),
                   Get(data.sources, List(<<>>)), t, m)

\* max(0.0, 1.0 - error_count / max(1, cache_hits + cache_misses)); the engine
\* makes no cache traffic, so cache_hits + cache_misses stays 0
SuccessRate(error_count) ==
    IF error_count <= 1 THEN RInt(1 - error_count) ELSE RInt(0)

log_error(m) ==
    [m EXCEPT !.error_count = m.error_count + 1,
              !.success_rate = SuccessRate(m.error_count + 1)]

\* lines 240-246 of base.py: the result is returned, a raise is logged and re-raised
Executed(result, t, m) ==
    IF result.raised
    THEN [outcome |-> result, metrics |-> log_error(m)]
    ELSE [outcome |-> result,
          metrics |-> [m EXCEPT !.execution_time = RInt(0), !.last_execution = t]]

\* execute(data) at time t with self.metrics = m: the outcome and the new metrics
execute(data, t, m) ==
    IF ~validate_input(data)
    THEN [outcome |-> [raised |-> TRUE,
                       failure |-> Raise("ValueError", "Invalid input data"),
                       ran |-> {}],
          metrics |-> m]
    ELSE Executed(process(data, t, m), t, m)

----------------------------------------------------------------------------
(* Bounds of the model and the inputs it draws.                            *)

Grid == 20

MaxSources == 2

MaxTime == 2

ScoreGrid ==
    {R(i, Grid) : i \in 0..Grid}

NoCall ==
    [called |-> FALSE]

Text(tokens) ==
    [tokens |-> tokens]

Content(text, analysis) ==
    [text |-> text, analysis |-> analysis]

Analysis(quality_score, strength_score) ==
    [quality_score |-> quality_score,
     evidence |-> IF strength_score = Absent THEN Absent
                  ELSE [strength_score |-> strength_score]]

Src(type, content, timestamp, user_id, vote_value) ==
    [source |-> type, content |-> content, timestamp |-> timestamp,
     user_id |-> user_id, vote_value |-> vote_value]

SampleSources ==
    { \* well-formed sources
      Src(Str("official_docs"), Content(Text(<<"Sky", "is", "blue", ".">>), Absent),
          Absent, Absent, Absent),
      Src(Str("official_docs"),
          Content(Text(<<"the", "sky", "is", "blue">>), Analysis(RInt(1), RInt(1))),
          RInt(0), Absent, Absent),
      Src(Str("social_media"),
          Content(Text(<<"grass", "is", "green", "!">>), Analysis(RInt(0), Absent)),
          RInt(half_life_days), Str("u1"), R(9, 10)),
      Src(Str("official_docs"),
          Content(Text(<<"the", "sky", "is", "blue">>), Absent),
          RInt(0), Str("u2"), RInt(0)),
      \* quality and evidence values outside [0, 1]
      Src(Str("official_docs"),
          Content(Text(<<"sky", "blue">>), Analysis(RInt(2), RInt(2))),
          Absent, Absent, Absent),
      Src(Str("social_media"),
          Content(Text(<<>>), Analysis(RInt(-1), RInt(-1))),
          Absent, Absent, Absent),
      \* no 'text' in the content
      Src(Str("research_paper"), Content(Absent, Absent), Absent, Absent, Absent),
      \* no 'source' key, no 'content' key
      Src(Absent, Content(Text(<<"Sky", "is", "blue", ".">>), Absent),
          Absent, Absent, Absent),
      Src(Str("forum_post"), Absent, Absent, Absent, Absent) }

RECURSIVE SeqsUpTo(_, _)
SeqsUpTo(S, k) ==
    IF k = 0 THEN {<<>>}
    ELSE LET shorter == SeqsUpTo(S, k - 1)
         IN  shorter \cup {Append(q, x) : q \in shorter, x \in S}

Requests ==
    [content_id : {Absent, None, Str(""), Str("c1")},
     sources : {Absent, None, Str("not a list")}
               \cup {List(q) : q \in SeqsUpTo(SampleSources, MaxSources)},
     previous_consensus_score : {Absent, None, R(1, 2), R(17, 20)}]

----------------------------------------------------------------------------
\* self.metrics of an engine that has served nothing yet
FreshMetrics ==
    [execution_time |-> RInt(0), success_rate |-> RInt(1),
     error_count |-> 0, last_execution |-> 0]

InitEngine ==
    /\ metrics = FreshMetrics
    /\ now = 0
    /\ last = NoCall

Init ==
    /\ sm_call = NoCall
    /\ sim_call = NoCall
    /\ InitEngine

\* A direct call _determine_consensus_state(current_score, previous_score).
DetermineCall ==
    \E c \in ScoreGrid, p \in ScoreGrid \cup {None} :
        /\ sm_call' = [called |-> TRUE, current_score |-> c, previous_score |-> p,
                       state |-> determine_consensus_state(c, p)]
        /\ UNCHANGED <<metrics, now, last, sim_call>>

NextState ==
    DetermineCall

SpecState ==
    Init /\ [][NextState]_vars

Called(via, data, outcome) ==
    [called |-> TRUE, via |-> via, data |-> data, before |-> metrics, outcome |-> outcome]

\* A caller runs engine.execute(data).
Execute ==
    /\ ~last.called
    /\ \E data \in Requests :
          \E r \in {execute(data, now, metrics)} :
              /\ last' = Called("execute", data, r.outcome)
              /\ metrics' = r.metrics
    /\ UNCHANGED <<sm_call, now, sim_call>>

\* A caller runs engine.process(data) directly, as the test suites do.
Process ==
    /\ ~last.called
    /\ \E data \in Requests :
          last' = Called("process", data, process(data, now, metrics))
    /\ UNCHANGED <<sm_call, metrics, now, sim_call>>

\* The caller takes the outcome; the engine is idle again.
Return ==
    /\ last.called
    /\ last' = NoCall
    /\ UNCHANGED <<sm_call, metrics, now, sim_call>>

\* time.time() advances between invocations.
Tick ==
    /\ ~last.called
    /\ now < MaxTime * half_life_days
    /\ now' = now + half_life_days
    /\ UNCHANGED <<sm_call, metrics, last, sim_call>>

Next ==
    \/ Execute
    \/ Process
    \/ Return
    \/ Tick

Spec ==
    Init /\ [][Next]_vars

----------------------------------------------------------------------------
(* Source lists that differ in their texts and types only, to exercise     *)
(* _calculate_consensus on agreeing and disagreeing texts.                 *)

MaxTexts == 3

SampleTexts ==
    { <<"Sky", "is", "blue", ".">>,
      <<"the", "sky", "IS", "Blue">>,
      <<"grass", "is", "green", "!">>,
      <<"water", "was", "cold">>,
      <<"sky", "blue">>,
      <<"it", "is", "ok">> }

\* the texts that are also submitted as social_media posts
PostedTexts ==
    { <<"grass", "is", "green", "!">>,
      <<"water", "was", "cold">> }

TextSource(type, tokens) ==
    Src(Str(type), Content(Text(tokens), Absent), Absent, Absent, Absent)

TextSources ==
    {TextSource("official_docs", t) : t \in SampleTexts}
        \cup {TextSource("social_media", t) : t \in PostedTexts}

TextLists ==
    SeqsUpTo(TextSources, MaxTexts)

TextRequest(q) ==
    [content_id |-> Str("c1"), sources |-> List(q), previous_consensus_score |-> Absent]

\* A caller runs engine.process on a list of such sources, with no previous score.
ProcessTexts ==
    /\ ~last.called
    /\ \E q \in TextLists :
          last' = Called("process", TextRequest(q), process(TextRequest(q), now, metrics))
    /\ UNCHANGED <<sm_call, metrics, now, sim_call>>

NextTexts ==
    \/ ProcessTexts
    \/ Return

SpecTexts ==
    Init /\ [][NextTexts]_vars

----------------------------------------------------------------------------
(* Source lists that differ in type, quality and evidence values, to       *)
(* exercise _calculate_reliability and its defaults.                       *)

MaxRated == 2

\* 'press_release' is a type that source_weights does not list
RatedTypes ==
    {"official_docs", "press_release"}

RatedAnalyses ==
    { Absent,
      [quality_score |-> Absent, evidence |-> Absent],
      [quality_score |-> R(1, 5), evidence |-> [strength_score |-> Absent]],
      [quality_score |-> Absent, evidence |-> [strength_score |-> RInt(1)]],
      [quality_score |-> R(1, 5), evidence |-> [strength_score |-> RInt(1)]] }

RatedTexts ==
    { <<"Sky", "is", "blue", ".">>, <<"grass", "is", "green", "!">> }

RatedSources ==
    {Src(Str(ty), Content(Text(t), a), Absent, Absent, Absent)
     : ty \in RatedTypes, a \in RatedAnalyses, t \in RatedTexts}

RatedLists ==
    SeqsUpTo(RatedSources, MaxRated)

\* A caller runs engine.process on a list of such sources.
ProcessRated ==
    /\ ~last.called
    /\ \E q \in RatedLists :
          last' = Called("process", TextRequest(q), process(TextRequest(q), now, metrics))
    /\ UNCHANGED <<sm_call, metrics, now, sim_call>>

NextRated ==
    \/ ProcessRated
    \/ Return

SpecRated ==
    Init /\ [][NextRated]_vars

----------------------------------------------------------------------------
(* Direct calls of _calculate_fact_similarity on pairs of fact strings.    *)

MaxFactLen == 2

FactWords ==
    {"Sky", "sky", "is", "blue", "the"}

Facts ==
    SeqsUpTo(FactWords, MaxFactLen)

SimilarityCall ==
    /\ ~sim_call.called
    /\ \E fact1 \in Facts, fact2 \in Facts :
          sim_call' = [called |-> TRUE, fact1 |-> fact1, fact2 |-> fact2,
                       similarity |-> calculate_fact_similarity(fact1, fact2)]
    /\ UNCHANGED <<sm_call, metrics, now, last>>

\* The caller takes the value.
SimilarityReturn ==
    /\ sim_call.called
    /\ sim_call' = NoCall
    /\ UNCHANGED <<sm_call, metrics, now, last>>

NextSimilarity ==
    \/ SimilarityCall
    \/ SimilarityReturn

SpecSimilarity ==
    Init /\ [][NextSimilarity]_vars

----------------------------------------------------------------------------
(* Source lists that differ in user_id, vote_value and timestamp only, to  *)
(* exercise temporal_weight and user_contributions as time passes.         *)

MaxVotes == 2

\* <<user_id, vote_value>>, either of which a source may lack
VoteChoices ==
    { <<Absent, Absent>>,
      <<Str("u1"), Absent>>,
      <<Absent, R(9, 10)>>,
      <<Str("u1"), R(2, 5)>>,
      <<Str("u1"), R(9, 10)>>,
      <<Str("u2"), R(9, 10)>> }

\* no timestamp, or the time the engine was built
VoteStamps ==
    {Absent, RInt(0)}

VoteSources ==
    {Src(Str("official_docs"), Content(Text(<<"Sky", "is", "blue", ".">>), Absent),
         ts, v[1], v[2])
     : ts \in VoteStamps, v \in VoteChoices}

VoteLists ==
    SeqsUpTo(VoteSources, MaxVotes)

\* A caller runs engine.process on a list of such sources, with no previous score.
ProcessVotes ==
    /\ ~last.called
    /\ \E q \in VoteLists :
          last' = Called("process", TextRequest(q), process(TextRequest(q), now, metrics))
    /\ UNCHANGED <<sm_call, metrics, now, sim_call>>

NextVotes ==
    \/ ProcessVotes
    \/ Return
    \/ Tick

SpecVotes ==
    Init /\ [][NextVotes]_vars

----------------------------------------------------------------------------
(* Direct calls of _calculate_term_agreement on lists of term lists; a     *)
(* list may name a term more than once.                                     *)

MaxTermLists == 4

KeyTermLists ==
    {<<>>, <<"sky">>, <<"blue">>, <<"sky", "blue">>, <<"sky", "sky">>}

TermListLists ==
    SeqsUpTo(KeyTermLists, MaxTermLists)

TermAgreementCall ==
    /\ ~sim_call.called
    /\ \E term_lists \in TermListLists :
          sim_call' = [called |-> TRUE, term_lists |-> term_lists,
                       agreement |-> calculate_term_agreement(term_lists)]
    /\ UNCHANGED <<sm_call, metrics, now, last>>

\* The caller takes the value.
TermAgreementReturn ==
    /\ sim_call.called
    /\ sim_call' = NoCall
    /\ UNCHANGED <<sm_call, metrics, now, last>>

NextTerms ==
    \/ TermAgreementCall
    \/ TermAgreementReturn

SpecTerms ==
    Init /\ [][NextTerms]_vars

----------------------------------------------------------------------------
(* Score feedback: the caller keeps each result's consensus_score and      *)
(* supplies it as previous_consensus_score of the next invocation for the  *)
(* same content (process, lines 150-155).  The first invocation has none.  *)

PreviousOf(call) ==
    IF call.called THEN call.current_score ELSE None

PrecedingState(call) ==
    IF call.called THEN call.state ELSE "none"

FeedbackCall ==
    \E c \in ScoreGrid :
        /\ sm_call' = [called |-> TRUE, current_score |-> c,
                       previous_score |-> PreviousOf(sm_call),
                       state |-> determine_consensus_state(c, PreviousOf(sm_call)),
                       preceding |-> PrecedingState(sm_call)]
        /\ UNCHANGED <<metrics, now, last, sim_call>>

NextFeedback ==
    FeedbackCall

SpecFeedback ==
    Init /\ [][NextFeedback]_vars

----------------------------------------------------------------------------
(* Claims about _determine_consensus_state, checked under SpecState.       *)

WasEstablished(call) ==
    /\ call.called
    /\ call.previous_score # None
    /\ RGe(call.previous_score, validation_thresholds.high)

\* C1: previous_score >= 0.8 and current_score < 0.4 always gives REVOKED.
\* (The claim as stated; the code returns CONTESTED there.)
C1_RevokedBelowLow ==
    (WasEstablished(sm_call) /\ RLt(sm_call.current_score, validation_thresholds.low))
        => sm_call.state = "revoked"

\* C2: previous_score >= 0.8 and 0.4 <= current_score < 0.6 gives CONTESTED.
C2_ContestedBand ==
    (/\ WasEstablished(sm_call)
     /\ RGe(sm_call.current_score, validation_thresholds.low)
     /\ RLt(sm_call.current_score, validation_thresholds.medium))
        => sm_call.state = "contested"

C2_Witness ==
    /\ WasEstablished(sm_call)
    /\ sm_call.previous_score = R(17, 20)
    /\ sm_call.current_score = R(11, 20)
    /\ sm_call.state = "contested"

\* C3: previous_score >= 0.8 and current_score >= 0.6 gives ESTABLISHED,
\* also for current_score in [0.6, 0.8).
C3_StaysEstablished ==
    (WasEstablished(sm_call) /\ RGe(sm_call.current_score, validation_thresholds.medium))
        => sm_call.state = "established"

C3_Witness ==
    /\ WasEstablished(sm_call)
    /\ RGe(sm_call.current_score, validation_thresholds.medium)
    /\ RLt(sm_call.current_score, validation_thresholds.high)
    /\ sm_call.state = "established"

C5_LowPreviousIgnored ==
    (/\ sm_call.called
     /\ sm_call.previous_score # None
     /\ RLt(sm_call.previous_score, validation_thresholds.high))
        => /\ sm_call.state = determine_consensus_state(sm_call.current_score, None)
           /\ sm_call.state \notin {"contested", "revoked"}

C5_Witness ==
    /\ sm_call.called
    /\ sm_call.previous_score = R(0, 1)
    /\ RLt(sm_call.current_score, validation_thresholds.low)
    /\ sm_call.state = "insufficient"

----------------------------------------------------------------------------
(* Claims about process and execute, checked under Spec.                   *)

\* the single entry of response.results, when a response was returned
ResultOf(call) ==
    call.outcome.response.results[1]

\* the invocation returned a response that carries a ConsensusResult
GaveResult(call) ==
    /\ call.called
    /\ ~call.outcome.raised
    /\ "consensus_score" \in DOMAIN ResultOf(call)

\* the invocation ended in an error: a raised exception or an error response
GaveError(call) ==
    /\ call.called
    /\ call.outcome.failure # None
    /\ (call.outcome.raised \/ "error" \in DOMAIN ResultOf(call))

ValidContentId(data) ==
    data.content_id = Str("c1")

\* C6: a valid content_id with sources = [] returns a normal ConsensusResult with
\* consensus_score 0.0, reliability_score 0.0, validation_count 0 and
\* temporal_weight 1.0, never an error.  (The claim as stated; the code runs min()
\* over the empty list and returns an error response.)
C6_EmptySourcesResult ==
    (last.called /\ ValidContentId(last.data) /\ last.data.sources = List(<<>>))
        => /\ GaveResult(last)
           /\ ResultOf(last).consensus_score = RInt(0)
           /\ ResultOf(last).reliability_score = RInt(0)
           /\ ResultOf(last).validation_count = 0
           /\ ResultOf(last).temporal_weight = RInt(1)

\* a source that lacks its type ('source') or its text (no 'content', or a content
\* without 'text')
LacksRequired(source) ==
    \/ source.source = Absent
    \/ source.content = Absent
    \/ source.content.text = Absent

HasOffendingSource(data) ==
    /\ ValidContentId(data)
    /\ IsList(data.sources)
    /\ \E i \in DOMAIN data.sources.list : LacksRequired(data.sources.list[i])

\* C7: a source lacking its type or its text fails the whole computation with an
\* invalid-source error; no default stands in for the missing text and no
\* ConsensusResult is produced.  (The claim as stated; the code reads a missing
\* text as '' and reports the other two as a KeyError naming the key.)
C7_InvalidSourceRejected ==
    (last.called /\ HasOffendingSource(last.data))
        => /\ ~GaveResult(last)
           /\ GaveError(last)
           /\ last.outcome.failure.error_type = "InvalidSourceError"

\* a failure inside process: through execute, validate_input has let the request in
FailedInProcess(call) ==
    /\ call.called
    /\ call.outcome.failure # None
    /\ (call.via = "execute" => validate_input(call.data))

\* C8: every failure while processing reaches the caller as a raised error, and
\* through execute it is counted by log_error.  (The claim as stated; process
\* catches every exception and returns an error response.)
C8_FailuresAreRaised ==
    FailedInProcess(last)
        => /\ last.outcome.raised
           /\ (last.via = "execute" => metrics.error_count = last.before.error_count + 1)

\* a content_id that is missing or empty, or a sources value that is not a list
BadInput(data) ==
    \/ data.content_id = Absent
    \/ data.content_id = Str("")
    \/ (data.sources # Absent /\ ~IsList(data.sources))

\* C9: a request with a missing or empty content_id, or with a sources value that
\* is not a list, is rejected before any consensus, reliability, temporal-weight
\* or contribution computation runs; it ends in an error, never a ConsensusResult.
C9_BadInputRejectedFirst ==
    (last.called /\ BadInput(last.data))
        => /\ last.outcome.ran = {}
           /\ GaveError(last)
           /\ ~GaveResult(last)

C9_Witness ==
    /\ last.called
    /\ last.via = "execute"
    /\ last.data.content_id = Str("")
    /\ IsList(last.data.sources)
    /\ last.data.sources.list # <<>>
    /\ ~last.outcome.raised
    /\ ResultOf(last).error = "Missing or invalid content_id"
    /\ last.outcome.ran = {}

\* C10: every ConsensusResult has 0 <= consensus_score <= 1 and
\* 0 <= reliability_score <= 1, whatever quality and evidence values the sources
\* carry.  (The claim as stated; reliability_score is an unclamped mean.)
C10_ScoresInUnitInterval ==
    GaveResult(last)
        => /\ RLe(RInt(0), ResultOf(last).consensus_score)
           /\ RLe(ResultOf(last).consensus_score, RInt(1))
           /\ RLe(RInt(0), ResultOf(last).reliability_score)
           /\ RLe(ResultOf(last).reliability_score, RInt(1))

\* C11: every ConsensusResult has 0 < temporal_weight <= 1, also when a source's
\* timestamp is later than the time of the invocation.  (The claim as stated; the
\* code computes 2 ** (-age / half_life) with a negative age.)
C11_TemporalWeightInUnitInterval ==
    GaveResult(last)
        => /\ RLt(RInt(0), ResultOf(last).temporal_weight)
           /\ RLe(ResultOf(last).temporal_weight, RInt(1))

\* every vote_value of the request lies in [0, 1]
VotesInRange(sources) ==
    \A i \in DOMAIN sources :
        Voted(sources[i]) => /\ RLe(RInt(0), sources[i].vote_value)
                             /\ RLe(sources[i].vote_value, RInt(1))

\* the timestamp of the vote that the mapping keeps for this user is not later
\* than the time of the invocation
VoteTimely(sources, user, t) ==
    \E i \in FinalVotes(sources, {j \in DOMAIN sources : Voted(sources[j])}) :
        /\ sources[i].user_id = Str(user)
        /\ RLe(Get(sources[i].timestamp, RInt(t)), RInt(t))

\* C12: every value of user_contributions is non-negative, and at most 1.0 when the
\* vote's timestamp is not later than the invocation time, for every source list
\* whose vote_value entries lie in [0, 1].
C12_ContributionsBounded ==
    (GaveResult(last) /\ VotesInRange(last.data.sources.list))
        => \A e \in ResultOf(last).user_contributions :
               /\ RLe(RInt(0), e.contribution)
               /\ (VoteTimely(last.data.sources.list, e.user_id, ResultOf(last).timestamp)
                       => RLe(e.contribution, RInt(1)))

C12_Witness ==
    /\ GaveResult(last)
    /\ now > 0
    /\ \E e \in ResultOf(last).user_contributions :
           /\ e.user_id = "u1"
           /\ VoteTimely(last.data.sources.list, "u1", ResultOf(last).timestamp)
           /\ RLt(RInt(0), e.contribution)
           /\ RLe(e.contribution, RInt(1))

\* the same request served at time 0 by an engine that has served nothing yet
Alone(data) ==
    process(data, 0, FreshMetrics)

\* the engine has served an earlier execute since it was built, and time has passed
ServedBefore(call) ==
    /\ call.called
    /\ call.before # FreshMetrics
    /\ call.outcome.response.timestamp > 0

SameScores(result, other) ==
    /\ result.consensus_score = other.consensus_score
    /\ result.reliability_score = other.reliability_score

\* C15: the same unmodified source list yields the same consensus_score and the
\* same reliability_score whenever it is submitted: at a later time and after
\* earlier invocations the scores are those of a first invocation at time 0.
C15_ScoresIdempotent ==
    GaveResult(last) => SameScores(ResultOf(last), Alone(last.data).response.results[1])

C15_Witness ==
    /\ GaveResult(last)
    /\ ServedBefore(last)
    /\ RLt(RInt(0), ResultOf(last).consensus_score)
    /\ ResultOf(last).temporal_weight # RInt(1)
    /\ SameScores(ResultOf(last), Alone(last.data).response.results[1])

\* the same request served at the same time by an engine that serves nothing else
AloneNow(call) ==
    process(call.data, call.outcome.response.timestamp, FreshMetrics)

\* C16: nothing written during one invocation is read by a later one: every
\* response is the response the request gets when it runs alone.  (The claim as
\* stated; execute writes self.metrics and process copies it into the response.)
C16_NoSharedState ==
    (last.called /\ ~last.outcome.raised)
        => last.outcome.response = AloneNow(last).response

----------------------------------------------------------------------------
(* Claims about sequences of invocations with score feedback, checked      *)
(* under SpecFeedback.                                                     *)

\* C13: with score feedback, a result whose state is CONTESTED or REVOKED is
\* immediately preceded by a result whose state was ESTABLISHED; PROVISIONAL,
\* EMERGING and INSUFFICIENT are never followed by CONTESTED or REVOKED.
C13_DowngradeOnlyFromEstablished ==
    (sm_call.called /\ sm_call.state \in {"contested", "revoked"})
        => sm_call.preceding = "established"

C13_Witness ==
    /\ sm_call.called
    /\ sm_call.state = "contested"
    /\ sm_call.preceding = "established"
    /\ sm_call.previous_score = R(4, 5)

\* C14: no state is absorbing: from every result reached with score feedback some
\* next consensus_score makes the following invocation return a different state.
C14_NoAbsorbingState ==
    sm_call.called
        => \E c \in ScoreGrid :
               determine_consensus_state(c, sm_call.current_score) # sm_call.state

C14_Witness ==
    /\ sm_call.called
    /\ sm_call.state = "established"
    /\ sm_call.preceding = "established"
    /\ determine_consensus_state(RInt(0), sm_call.current_score) = "contested"

----------------------------------------------------------------------------
(* Claims about the consensus of agreeing and disagreeing texts, checked   *)
(* under SpecTexts.                                                        *)

\* the request is a list of n sources
ListOf(call, n) ==
    /\ call.called
    /\ IsList(call.data.sources)
    /\ Len(call.data.sources.list) = n

\* two official_docs sources with identical text, no previous score
TwoIdenticalOfficial(call) ==
    /\ ListOf(call, 2)
    /\ call.data.previous_consensus_score = Absent
    /\ \A i \in 1..2 : call.data.sources.list[i].source = Str("official_docs")
    /\ call.data.sources.list[1].content.text = call.data.sources.list[2].content.text

NonStopWords(fact) ==
    SeqToSet(WordsOf(fact)) \ stop_words

\* the text yields a key term, and a fact that keeps a word besides stop words
HasTermAndFact(text) ==
    /\ extract_key_terms(text) # <<>>
    /\ \E k \in DOMAIN extract_facts(text) : NonStopWords(extract_facts(text)[k]) # {}

HighAndEstablished(call) ==
    /\ GaveResult(call)
    /\ RGe(ResultOf(call).consensus_score, R(9, 10))
    /\ ResultOf(call).consensus_state = "established"

\* C17 as stated: for every two official_docs sources with identical text and no
\* previous score, consensus_score >= 0.9 and the state is ESTABLISHED.
C17_IdenticalOfficialEstablished ==
    TwoIdenticalOfficial(last) => HighAndEstablished(last)

\* C17 as amended: the same for every such pair whose text yields at least one key
\* term and at least one fact with a word that is no stop word.
C17_IdenticalFactualEstablished ==
    (TwoIdenticalOfficial(last) /\ HasTermAndFact(TextOf(last.data.sources.list[1])))
        => HighAndEstablished(last)

C17_Witness ==
    /\ TwoIdenticalOfficial(last)
    /\ TextOf(last.data.sources.list[1]) = <<"Sky", "is", "blue", ".">>
    /\ HasTermAndFact(TextOf(last.data.sources.list[1]))
    /\ ResultOf(last).consensus_score = RInt(1)
    /\ ResultOf(last).consensus_state = "established"

TermListsOf(sources) ==
    [i \in DOMAIN sources |-> extract_key_terms(TextOf(sources[i]))]

FactListsOf(sources) ==
    [i \in DOMAIN sources |-> extract_facts(TextOf(sources[i]))]

TermsDisjoint(term_lists) ==
    \A i, j \in DOMAIN term_lists :
        i # j => SeqToSet(term_lists[i]) \cap SeqToSet(term_lists[j]) = {}

\* no fact of one source has a word (stop words aside) in common with a fact of
\* another source
FactsShareNoWords(fact_lists) ==
    \A i, j \in DOMAIN fact_lists :
        i # j => \A k \in DOMAIN fact_lists[i], m \in DOMAIN fact_lists[j] :
                     NonStopWords(fact_lists[i][k]) \cap NonStopWords(fact_lists[j][m]) = {}

NoOverlap(call) ==
    /\ ListOf(call, 3)
    /\ call.data.previous_consensus_score = Absent
    /\ TermsDisjoint(TermListsOf(call.data.sources.list))
    /\ FactsShareNoWords(FactListsOf(call.data.sources.list))

\* C18: for three sources with pairwise disjoint term sets and facts that share no
\* words, term_agreement = 0, fact_agreement = 0, consensus_score = 0.0 and, with no
\* previous score, the state is INSUFFICIENT, whatever the source types.
C18_NoOverlapInsufficient ==
    NoOverlap(last)
        => /\ calculate_term_agreement(TermListsOf(last.data.sources.list)) = RInt(0)
           /\ calculate_fact_agreement(FactListsOf(last.data.sources.list)) = RInt(0)
           /\ GaveResult(last)
           /\ ResultOf(last).consensus_score = RInt(0)
           /\ ResultOf(last).consensus_state = "insufficient"

C18_Witness ==
    /\ NoOverlap(last)
    /\ \A i \in 1..3 : extract_key_terms(TextOf(last.data.sources.list[i])) # <<>>
    /\ \A i \in 1..3 : extract_facts(TextOf(last.data.sources.list[i])) # <<>>
    /\ last.data.sources.list[1].source # last.data.sources.list[2].source
    /\ ResultOf(last).consensus_score = RInt(0)
    /\ ResultOf(last).consensus_state = "insufficient"

----------------------------------------------------------------------------
(* Claims about _calculate_fact_similarity, checked under SpecSimilarity.  *)

\* C19: fact similarity is symmetric, _calculate_fact_similarity(A, B) equals
\* _calculate_fact_similarity(B, A), and its value lies in [0, 1].
C19_SimilaritySymmetric ==
    sim_call.called
        => /\ sim_call.similarity = calculate_fact_similarity(sim_call.fact2, sim_call.fact1)
           /\ RLe(RInt(0), sim_call.similarity)
           /\ RLe(sim_call.similarity, RInt(1))

C19_Witness ==
    /\ sim_call.called
    /\ sim_call.fact1 = <<"Sky", "is">>
    /\ sim_call.fact2 = <<"blue", "sky">>
    /\ sim_call.similarity = R(1, 2)
    /\ calculate_fact_similarity(sim_call.fact2, sim_call.fact1) = R(1, 2)

\* C20: the similarity of a fact with itself is 1.0 when its word set after
\* case-folding and stop-word removal is not empty, and the similarity of any pair
\* is 0.0 when either word set is empty after stop-word removal.
C20_ReflexiveAndEmpty ==
    sim_call.called
        => /\ (sim_call.fact1 = sim_call.fact2 /\ NonStopWords(sim_call.fact1) # {})
                  => sim_call.similarity = RInt(1)
           /\ (NonStopWords(sim_call.fact1) = {} \/ NonStopWords(sim_call.fact2) = {})
                  => sim_call.similarity = RInt(0)

C20_Witness ==
    /\ sim_call.called
    /\ sim_call.fact1 = <<"the", "Sky">>
    /\ sim_call.fact2 = sim_call.fact1
    /\ NonStopWords(sim_call.fact1) = {"sky"}
    /\ sim_call.similarity = RInt(1)

----------------------------------------------------------------------------
(* Further claims about the state machine.                                 *)

\* C29: with score feedback, the supplied previous score is >= 0.8 exactly when
\* the preceding result's state was ESTABLISHED.  (The claim as stated; the hold
\* branch returns ESTABLISHED for scores in [0.6, 0.8).)
C29_HighIffEstablished ==
    (sm_call.called /\ sm_call.previous_score # None)
        => (RGe(sm_call.previous_score, validation_thresholds.high)
                <=> sm_call.preceding = "established")

\* C30: each of the six states is returned by _determine_consensus_state for at
\* least one pair of scores in [0, 1].  (The claim as stated; no pair gives
\* REVOKED.)
C30_EveryStateReturned ==
    sm_call.called
        => \A st \in ConsensusState :
               \E c \in ScoreGrid, p \in ScoreGrid \cup {None} :
                   determine_consensus_state(c, p) = st

----------------------------------------------------------------------------
(* Claims about the computed scores.                                       *)

\* 0.4 * term_agreement + 0.6 * fact_agreement of a source list
RawScoreOf(sources) ==
    RAdd(RMul(R(4, 10), calculate_term_agreement(TermListsOf(sources))),
         RMul(R(6, 10), calculate_fact_agreement(FactListsOf(sources))))

\* C21: for every non-empty source list consensus_score =
\* min(1.0, (0.4 * term_agreement + 0.6 * fact_agreement) * m) where m is the mean
\* of the per-source reliability values, the value reported as reliability_score.
\* (The claim as stated; the code multiplies by the mean of the base weights.)
C21_ScoreDampedByReliability ==
    GaveResult(last)
        => ResultOf(last).consensus_score =
               RMin(RInt(1), RMul(RawScoreOf(last.data.sources.list),
                                  ResultOf(last).reliability_score))

\* base weight of the source's type from the fixed table, 0.5 for any other type
TableWeight(source) ==
    IF source.source.str \in DOMAIN source_weights
    THEN source_weights[source.source.str] ELSE R(1, 2)

\* the supplied quality_score, 0.5 when none is supplied
QualityGiven(content) ==
    IF content.analysis = Absent THEN R(1, 2)
    ELSE IF content.analysis.quality_score = Absent THEN R(1, 2)
    ELSE content.analysis.quality_score

\* the supplied evidence strength, 0.5 when none is supplied
StrengthGiven(content) ==
    IF content.analysis = Absent THEN R(1, 2)
    ELSE IF content.analysis.evidence = Absent THEN R(1, 2)
    ELSE IF content.analysis.evidence.strength_score = Absent THEN R(1, 2)
    ELSE content.analysis.evidence.strength_score

BlendOf(source) ==
    RAdd(RMul(R(2, 5), TableWeight(source)),
         RAdd(RMul(R(3, 10), QualityGiven(source.content)),
              RMul(R(3, 10), StrengthGiven(source.content))))

MeanBlend(sources) ==
    RDivInt(RSum([i \in DOMAIN sources |-> BlendOf(sources[i])]), Len(sources))

\* the same sources with every text replaced by another one
Retexted(sources) ==
    [i \in DOMAIN sources |->
        [sources[i] EXCEPT !.content.text = Text(<<"water", "was", "cold">>)]]

\* C22: for every non-empty source list reliability_score is the mean over the
\* sources of 0.4 * base_weight + 0.3 * quality_score + 0.3 * evidence_strength,
\* with 0.5 for a type outside the table and for a missing quality or evidence
\* value, and it does not change when only the texts change.
C22_ReliabilityIsMeanBlend ==
    GaveResult(last)
        => /\ ResultOf(last).reliability_score = MeanBlend(last.data.sources.list)
           /\ ResultOf(last).reliability_score =
                  Alone(TextRequest(Retexted(last.data.sources.list)))
                      .response.results[1].reliability_score

C22_Witness ==
    /\ GaveResult(last)
    /\ ListOf(last, 2)
    /\ last.data.sources.list[1].source = Str("press_release")
    /\ last.data.sources.list[1].content.analysis = Absent
    /\ last.data.sources.list[2].source = Str("official_docs")
    /\ last.data.sources.list[2].content.analysis
           = [quality_score |-> R(1, 5), evidence |-> [strength_score |-> Absent]]
    /\ ResultOf(last).reliability_score = R(111, 200)

----------------------------------------------------------------------------
(* Claims about fact and term agreement, checked under SpecTexts.          *)

\* every fact of every source, as <<source index, fact index>>
AllFacts(fact_lists) ==
    UNION {{<<i, k>> : k \in DOMAIN fact_lists[i]} : i \in DOMAIN fact_lists}

\* the other sources holding a fact with similarity >= 0.7 to this fact
OthersMatching(fact_lists, f) ==
    {j \in DOMAIN fact_lists \ {f[1]} :
        \E m \in DOMAIN fact_lists[j] :
            RGe(calculate_fact_similarity(fact_lists[f[1]][f[2]], fact_lists[j][m]),
                R(7, 10))}

MatchedFacts(fact_lists) ==
    {f \in AllFacts(fact_lists) : OthersMatching(fact_lists, f) # {}}

\* the mean of agreements / (N - 1) over the given facts, 0.0 for no facts
MeanFraction(fact_lists, facts) ==
    MeanOf({[key |-> f,
             score |-> R(Cardinality(OthersMatching(fact_lists, f)), Len(fact_lists) - 1)]
            : f \in facts})

SeveralTexts(call) ==
    /\ GaveResult(call)
    /\ Len(call.data.sources.list) >= 2

\* C23 as stated: for N >= 2 sources fact_agreement is the mean over ALL facts of
\* agreements / (N - 1), an unmatched fact contributing 0, and it is 0.0 only when
\* no fact is matched anywhere.
C23_MeanOverAllFacts ==
    SeveralTexts(last)
        => /\ calculate_fact_agreement(FactListsOf(last.data.sources.list))
                  = MeanFraction(FactListsOf(last.data.sources.list),
                                 AllFacts(FactListsOf(last.data.sources.list)))
           /\ (calculate_fact_agreement(FactListsOf(last.data.sources.list)) = RInt(0)
                   <=> MatchedFacts(FactListsOf(last.data.sources.list)) = {})

\* C23 as amended: for N >= 2 sources fact_agreement is the mean of
\* agreements / (N - 1) over the facts that at least one other source matches,
\* unmatched facts being left out of the mean, and it is 0.0 exactly when no fact
\* is matched anywhere.
C23_MeanOverMatchedFacts ==
    SeveralTexts(last)
        => /\ calculate_fact_agreement(FactListsOf(last.data.sources.list))
                  = MeanFraction(FactListsOf(last.data.sources.list),
                                 MatchedFacts(FactListsOf(last.data.sources.list)))
           /\ (calculate_fact_agreement(FactListsOf(last.data.sources.list)) = RInt(0)
                   <=> MatchedFacts(FactListsOf(last.data.sources.list)) = {})

C23_Witness ==
    /\ SeveralTexts(last)
    /\ Len(last.data.sources.list) = 3
    /\ Cardinality(AllFacts(FactListsOf(last.data.sources.list))) = 3
    /\ Cardinality(MatchedFacts(FactListsOf(last.data.sources.list))) = 2
    /\ calculate_fact_agreement(FactListsOf(last.data.sources.list)) = R(1, 2)

\* the sources whose term list names the term at some position
SourcesWith(term_lists, t) ==
    {i \in DOMAIN term_lists : \E k \in DOMAIN term_lists[i] : term_lists[i][k] = t}

\* the unique terms found in at least 70% of the sources
Qualifying(term_lists) ==
    {t \in UNION {SeqToSet(term_lists[i]) : i \in DOMAIN term_lists} :
        10 * Cardinality(SourcesWith(term_lists, t)) >= 7 * Len(term_lists)}

MeanQualifying(term_lists) ==
    MeanOf({[key |-> t,
             score |-> R(Cardinality(SourcesWith(term_lists, t)), Len(term_lists))]
            : t \in Qualifying(term_lists)})

\* C24: term_agreement is, per unique term, (number of sources containing the
\* term) / N with a term counted once per source; only fractions >= 0.7 contribute
\* and the result is their mean, or 0.0 when none qualifies; hence it is always
\* 0.0 or a value in [0.7, 1.0].
C24_TermAgreementMeanOfQualifying ==
    sim_call.called
        => /\ sim_call.agreement = MeanQualifying(sim_call.term_lists)
           /\ (Qualifying(sim_call.term_lists) = {} => sim_call.agreement = RInt(0))
           /\ \/ sim_call.agreement = RInt(0)
              \/ /\ RGe(sim_call.agreement, R(7, 10))
                 /\ RLe(sim_call.agreement, RInt(1))

\* four sources, one term in all four and one in three of them, one source naming
\* a term twice: the mean of 1 and 3/4
C24_Witness ==
    /\ sim_call.called
    /\ Len(sim_call.term_lists) = 4
    /\ \E i \in DOMAIN sim_call.term_lists : sim_call.term_lists[i] = <<"sky", "sky">>
    /\ Cardinality(Qualifying(sim_call.term_lists)) = 2
    /\ sim_call.agreement = R(7, 8)

\* 1.0 when the only source yields a key term, 0.0 otherwise
SingleTermAgreement(sources) ==
    IF TermListsOf(sources)[1] # <<>> THEN RInt(1) ELSE RInt(0)

\* C25: for a list of exactly one source the computation completes without a
\* division by zero: fact_agreement is 0.0, term_agreement is 1.0 when the source
\* yields a key term and 0.0 otherwise, and so consensus_score (0.4 *
\* term_agreement * weight) never exceeds 0.4.
C25_SingleSourceDegenerates ==
    ListOf(last, 1)
        => /\ GaveResult(last)
           /\ ~GaveError(last)
           /\ calculate_fact_agreement(FactListsOf(last.data.sources.list)) = RInt(0)
           /\ calculate_term_agreement(TermListsOf(last.data.sources.list))
                  = SingleTermAgreement(last.data.sources.list)
           /\ ResultOf(last).consensus_score
                  = RMul(RMul(R(4, 10), SingleTermAgreement(last.data.sources.list)),
                         TableWeight(last.data.sources.list[1]))
           /\ RLe(ResultOf(last).consensus_score, R(4, 10))

\* one official_docs source whose text yields a key term and a fact: the fact
\* finds no other source, the term is in 1 of 1 sources, the score is 0.4
C25_Witness ==
    /\ ListOf(last, 1)
    /\ GaveResult(last)
    /\ last.data.sources.list[1].source = Str("official_docs")
    /\ TermListsOf(last.data.sources.list)[1] # <<>>
    /\ FactListsOf(last.data.sources.list)[1] # <<>>
    /\ ResultOf(last).consensus_score = R(4, 10)

----------------------------------------------------------------------------
(* Claims about temporal_weight and user_contributions, checked under      *)
(* SpecVotes.                                                              *)

\* the day a source counts as stamped at: its timestamp, or the invocation time
StampOf(source, t) ==
    IF source.timestamp = Absent THEN t ELSE source.timestamp.n

\* the oldest day among the sources
OldestStamp(sources, t) ==
    CHOOSE m \in {StampOf(sources[i], t) : i \in DOMAIN sources} :
        \A i \in DOMAIN sources : m <= StampOf(sources[i], t)

\* 2 ** -(age / 7 days) of a day that is not later than t
DecayOfDay(day, t) ==
    R(1, Pow2((t - day) \div 7))

\* temporal_weight of the result that the same engine gives for these sources
WeightFor(sources, call) ==
    process(TextRequest(sources), ResultOf(call).timestamp, call.before)
        .response.results[1].temporal_weight

AllButLast(sources) ==
    SubSeq(sources, 1, Len(sources) - 1)

\* C26: for every non-empty source list temporal_weight is the decay of the
\* oldest timestamp among the sources, a source without timestamp counting as
\* stamped at the invocation time; adding a source to a list never increases
\* temporal_weight, and the decay is strictly smaller for a strictly older
\* timestamp.
C26_TemporalWeightOfOldest ==
    (GaveResult(last) /\ last.data.sources.list # <<>>)
        => /\ ResultOf(last).temporal_weight
                  = DecayOfDay(OldestStamp(last.data.sources.list, ResultOf(last).timestamp),
                               ResultOf(last).timestamp)
           /\ (Len(last.data.sources.list) >= 2
                   => RLe(ResultOf(last).temporal_weight,
                          WeightFor(AllButLast(last.data.sources.list), last)))
           /\ \A i, j \in DOMAIN last.data.sources.list :
                  StampOf(last.data.sources.list[i], ResultOf(last).timestamp)
                      < StampOf(last.data.sources.list[j], ResultOf(last).timestamp)
                  => RLt(calculate_temporal_weight(
                             RInt(StampOf(last.data.sources.list[i], ResultOf(last).timestamp)),
                             ResultOf(last).timestamp),
                         calculate_temporal_weight(
                             RInt(StampOf(last.data.sources.list[j], ResultOf(last).timestamp)),
                             ResultOf(last).timestamp))

\* two half-lives after construction: a source without timestamp, then one stamped
\* at construction, which lowers the weight from 1 to 1/4
C26_Witness ==
    /\ GaveResult(last)
    /\ ListOf(last, 2)
    /\ ResultOf(last).timestamp = 2 * 7
    /\ last.data.sources.list[1].timestamp = Absent
    /\ last.data.sources.list[2].timestamp = RInt(0)
    /\ WeightFor(AllButLast(last.data.sources.list), last) = RInt(1)
    /\ ResultOf(last).temporal_weight = R(1, 4)

\* the sources that carry both user_id and vote_value
VoteIndexes(sources) ==
    {i \in DOMAIN sources :
        sources[i].user_id # Absent /\ sources[i].vote_value # Absent}

\* decay(vote timestamp, half-life 7 days) * (1 - |c - vote_value|)
CreditOf(source, c, t) ==
    RMul(DecayOfDay(StampOf(source, t), t),
         RSub(RInt(1), RAbs(RSub(c, source.vote_value))))

\* C27: user_contributions has an entry exactly for the user_ids of sources that
\* carry both user_id and vote_value, and each entry equals decay(vote timestamp,
\* half-life 7 days) * (1 - |c - vote_value|) for such a source of that user, c
\* being the consensus_score of the same result; a vote equal to c with zero age
\* yields credit 1.0.
C27_ContributionsOfVoters ==
    GaveResult(last)
        => /\ {e.user_id : e \in ResultOf(last).user_contributions}
                  = {last.data.sources.list[i].user_id.str
                     : i \in VoteIndexes(last.data.sources.list)}
           /\ \A e \in ResultOf(last).user_contributions :
                  \E i \in VoteIndexes(last.data.sources.list) :
                      /\ last.data.sources.list[i].user_id = Str(e.user_id)
                      /\ e.contribution = CreditOf(last.data.sources.list[i],
                                                   ResultOf(last).consensus_score,
                                                   ResultOf(last).timestamp)
           /\ \A i \in VoteIndexes(last.data.sources.list) :
                  (/\ StampOf(last.data.sources.list[i], ResultOf(last).timestamp)
                          = ResultOf(last).timestamp
                   /\ last.data.sources.list[i].vote_value = ResultOf(last).consensus_score
                   /\ \A j \in VoteIndexes(last.data.sources.list) :
                          last.data.sources.list[j].user_id = last.data.sources.list[i].user_id
                              => j = i)
                  => [user_id |-> last.data.sources.list[i].user_id.str,
                      contribution |-> RInt(1)] \in ResultOf(last).user_contributions

\* a vote of 0.9 by u2 on a score of 1.0, one half-life old, next to a source
\* with a user_id but no vote: the only entry is u2's, 1/2 * 0.9
C27_Witness ==
    /\ GaveResult(last)
    /\ ListOf(last, 2)
    /\ ResultOf(last).timestamp = 7
    /\ last.data.sources.list[1].user_id = Str("u1")
    /\ last.data.sources.list[1].vote_value = Absent
    /\ last.data.sources.list[2].timestamp = RInt(0)
    /\ ResultOf(last).consensus_score = RInt(1)
    /\ ResultOf(last).user_contributions = {[user_id |-> "u2", contribution |-> R(9, 20)]}

\* the last source, in input order, that carries this user_id and a vote_value
LastVoteOf(sources, user) ==
    CHOOSE i \in VoteIndexes(sources) :
        /\ sources[i].user_id = Str(user)
        /\ \A j \in VoteIndexes(sources) : sources[j].user_id = Str(user) => j <= i

\* C28: when several sources of one invocation carry the same user_id, the credit
\* recorded for that user is the one computed from the last such source in input
\* order; earlier votes of that user leave no trace in user_contributions.
C28_LastVoteWins ==
    GaveResult(last)
        => \A e \in ResultOf(last).user_contributions :
               /\ e.contribution
                      = CreditOf(last.data.sources.list[
                                     LastVoteOf(last.data.sources.list, e.user_id)],
                                 ResultOf(last).consensus_score,
                                 ResultOf(last).timestamp)
               /\ Cardinality({x \in ResultOf(last).user_contributions :
                                  x.user_id = e.user_id}) = 1

\* u1 votes 0.4 and then 0.9 on a score of 1.0: the entry is 0.9, the credit of
\* the second vote, and the 0.4 of the first is gone
C28_Witness ==
    /\ GaveResult(last)
    /\ ListOf(last, 2)
    /\ ResultOf(last).timestamp = 0
    /\ last.data.sources.list[1].user_id = Str("u1")
    /\ last.data.sources.list[1].vote_value = R(2, 5)
    /\ last.data.sources.list[2].user_id = Str("u1")
    /\ last.data.sources.list[2].vote_value = R(9, 10)
    /\ CreditOf(last.data.sources.list[1], ResultOf(last).consensus_score, 0) = R(2, 5)
    /\ ResultOf(last).user_contributions = {[user_id |-> "u1", contribution |-> R(9, 10)]}

====
